---- MODULE Spec2Model ----
(***************************************************************************)
(* shodh: a fuzzy path finder.  main walks a directory tree (walk_dir),    *)
(* scores every collected path against the query (filter_and_score,        *)
(* fuzzy_score), pushes the scored paths into a BinaryHeap ordered by      *)
(* ScoredPath::cmp and prints the first `num` of the sorted heap.          *)
(*                                                                         *)
(* A name is a sequence of bytes, a path a sequence of names (its          *)
(* components), the file system a function from paths to kinds.            *)
(***************************************************************************)
EXTENDS Integers, Sequences, FiniteSets, TLC

\* ------------------------------------------------------------------ bounds

\* Longest query and candidate name of the scoring specification.
MaxLen == 3
\* Largest result limit (-n) of the pipeline specification.
MaxNum == 2
\* Events of the environment in one run: I/O failures of the traversal,
\* entries read_dir yields a second time, paths another process removes,
\* replaces or creates.
MaxEvents == 1

\* --------------------------------------------------------------- bytes

\* The byte that makes a name invalid UTF-8 (OsStr::to_str returns None).
BadByte == 255

Max(a, b) == IF a >= b THEN a ELSE b
Min(a, b) == IF a <= b THEN a ELSE b

\* char::to_lowercase on the ASCII range.
LowerByte(b) == IF b >= 65 /\ b <= 90 THEN b + 32 ELSE b

\* str::to_lowercase
to_lowercase(s) == [i \in 1..Len(s) |-> LowerByte(s[i])]

\* str::starts_with
starts_with(c, q) == Len(q) <= Len(c) /\ SubSeq(c, 1, Len(q)) = q

\* Ord::cmp on integers (i32, u8)
IntCmp(a, b) == IF a < b THEN "Less" ELSE IF a > b THEN "Greater" ELSE "Equal"

\* Lexicographic comparison of two byte strings (OsStr::cmp).
RECURSIVE BytesCmpFrom(_, _, _)
BytesCmpFrom(a, b, i) ==
    IF i > Len(a) /\ i > Len(b) THEN "Equal"
    ELSE IF i > Len(a) THEN "Less"
    ELSE IF i > Len(b) THEN "Greater"
    ELSE IF a[i] # b[i] THEN IntCmp(a[i], b[i])
    ELSE BytesCmpFrom(a, b, i + 1)

BytesCmp(a, b) == BytesCmpFrom(a, b, 1)

\* PathBuf::cmp: component by component, each component as a byte string.
RECURSIVE PathCmpFrom(_, _, _)
PathCmpFrom(p, r, i) ==
    IF i > Len(p) /\ i > Len(r) THEN "Equal"
    ELSE IF i > Len(p) THEN "Less"
    ELSE IF i > Len(r) THEN "Greater"
    ELSE IF BytesCmp(p[i], r[i]) # "Equal" THEN BytesCmp(p[i], r[i])
    ELSE PathCmpFrom(p, r, i + 1)

PathCmp(p, r) == PathCmpFrom(p, r, 1)

\* ------------------------------------------------------------ fuzzy_score

match_score == 2
mismatch_penalty == 0 - 1
gap_penalty == 0 - 2
ExactBoost == 10000
PrefixBoost == 5000

\* One row of the DP matrix: dp[i][0..n] from dp[i-1][0..n].  A row is a
\* sequence whose element j+1 is the cell of column j; acc holds the cells of
\* columns 0..j-1 already filled.
RECURSIVE DpRow(_, _, _, _, _)
DpRow(qi, c, prev, j, acc) ==
    IF j > Len(c) THEN acc
    ELSE LET score_diag == IF qi = c[j] THEN prev[j] + match_score
                           ELSE prev[j] + mismatch_penalty
             score_up   == prev[j + 1] + gap_penalty
             score_left == acc[j] + gap_penalty
             best_diag  == Max(0, score_diag)
             best_up    == Max(best_diag, score_up)
             score      == Max(best_up, score_left)
         IN  DpRow(qi, c, prev, j + 1, Append(acc, score))

\* The outer loop from row i on: rows holds dp[0..i-1].
RECURSIVE DpFill(_, _, _, _)
DpFill(q, c, i, rows) ==
    IF i > Len(q) THEN rows
    ELSE DpFill(q, c, i + 1, Append(rows, DpRow(q[i], c, rows[i], 1, <<0>>)))

\* The matrix dp[0..m][0..n]; row 0 is all 0.
DpRows(q, c) == DpFill(q, c, 1, << [j \in 1..(Len(c) + 1) |-> 0] >>)

\* max_score before the boosts: the largest cell of the matrix.
RECURSIVE SeqMax(_, _)
SeqMax(s, i) ==
    IF i > Len(s) THEN 0 ELSE LET later == SeqMax(s, i + 1) IN Max(s[i], later)

RECURSIVE RowsMax(_, _)
RowsMax(rows, i) ==
    IF i > Len(rows) THEN 0
    ELSE LET here == SeqMax(rows[i], 1)
             later == RowsMax(rows, i + 1)
         IN  Max(here, later)

Alignment(q, c) == RowsMax(DpRows(q, c), 1)

\* fuzzy_score with the empty-input guard dropped (mutant).
fuzzy_score_noguard(query, candidate) ==
    LET a == Alignment(query, candidate)
        b == IF query = candidate THEN a + ExactBoost ELSE a
    IN  IF starts_with(candidate, query) /\ query # candidate
        THEN b + PrefixBoost ELSE b

\* fuzzy_score with the two boosts swapped (mutant).
fuzzy_score_swapped(query, candidate) ==
    IF Len(query) = 0 \/ Len(candidate) = 0 THEN 0
    ELSE LET a == Alignment(query, candidate)
             b == IF query = candidate THEN a + PrefixBoost ELSE a
         IN  IF starts_with(candidate, query) /\ query # candidate
             THEN b + ExactBoost ELSE b

\* fuzzy_score without the prefix boost (mutant).
fuzzy_score_noprefix(query, candidate) ==
    IF Len(query) = 0 \/ Len(candidate) = 0 THEN 0
    ELSE LET a == Alignment(query, candidate)
         IN  IF query = candidate THEN a + ExactBoost ELSE a

fuzzy_score(query, candidate) ==
    IF Len(query) = 0 \/ Len(candidate) = 0 THEN 0
    ELSE LET a == Alignment(query, candidate)
             b == IF query = candidate THEN a + ExactBoost ELSE a
         IN  IF starts_with(candidate, query) /\ query # candidate
             THEN b + PrefixBoost ELSE b

\* ------------------------------------------------------- filter_and_score

\* Path::is_file, Path::is_dir: false for a path that does not exist.
is_file(kinds, path) == path \in DOMAIN kinds /\ kinds[path] = "file"
is_dir(kinds, path) == path \in DOMAIN kinds /\ kinds[path] = "dir"

\* Path::file_name followed by OsStr::to_str: <<name>> or <<>> (None).
file_name(path) ==
    IF Len(path) = 0 THEN <<>>
    ELSE LET name == path[Len(path)]
         IN  IF \E i \in 1..Len(name) : name[i] = BadByte THEN <<>> ELSE <<name>>

\* filter_and_score keeping a candidate of score 0 (mutant).
filter_and_score_nonneg(path, cfg, isf, isd) ==
    LET nm == file_name(path) IN
    IF nm = <<>> THEN <<>>
    ELSE IF cfg.files_only /\ ~isf THEN <<>>
    ELSE IF cfg.dirs_only /\ ~isd THEN <<>>
    ELSE LET query == IF cfg.case = "Insensitive" THEN to_lowercase(cfg.query)
                      ELSE cfg.query
             candidate == IF cfg.case = "Insensitive" THEN to_lowercase(nm[1])
                          ELSE nm[1]
             score == fuzzy_score(query, candidate)
         IN  IF score >= 0 THEN << [score |-> score, path |-> path] >> ELSE <<>>

\* The Option<ScoredPath> of one candidate: <<sp>> (Some) or <<>> (None).
\* isf is what path.is_file() answers at line 212 and isd what path.is_dir()
\* answers at line 215; each is read only when its flag is set.
filter_and_score(path, cfg, isf, isd) ==
    LET nm == file_name(path) IN
    IF nm = <<>> THEN <<>>
    ELSE IF cfg.files_only /\ ~isf THEN <<>>
    ELSE IF cfg.dirs_only /\ ~isd THEN <<>>
    ELSE LET query == IF cfg.case = "Insensitive" THEN to_lowercase(cfg.query)
                      ELSE cfg.query
             candidate == IF cfg.case = "Insensitive" THEN to_lowercase(nm[1])
                          ELSE nm[1]
             score == fuzzy_score(query, candidate)
         IN  IF score > 0 THEN << [score |-> score, path |-> path] >> ELSE <<>>

\* ------------------------------------------------ ScoredPath and the heap

\* ScoredPath::cmp without the path tie-break (mutant).
cmp_score_only(self, other) == IntCmp(self.score, other.score)

\* ScoredPath::cmp with the path operands not swapped (mutant).
cmp_path_forward(self, other) ==
    IF IntCmp(self.score, other.score) # "Equal"
    THEN IntCmp(self.score, other.score)
    ELSE PathCmp(self.path, other.path)

\* impl Ord for ScoredPath: by score, then by path reversed.
cmp(self, other) ==
    IF IntCmp(self.score, other.score) # "Equal"
    THEN IntCmp(self.score, other.score)
    ELSE PathCmp(other.path, self.path)

\* PartialOrd from partial_cmp: a <= b, a < b, a >= b
le(a, b) == cmp(a, b) # "Greater"
lt(a, b) == cmp(a, b) = "Less"
ge(a, b) == cmp(a, b) # "Less"

Swap(h, i, j) == [h EXCEPT ![i] = h[j], ![j] = h[i]]

\* BinaryHeap::sift_up(0, pos); the heap is 1-based, the parent of pos is pos \div 2.
RECURSIVE sift_up(_, _)
sift_up(h, pos) ==
    IF pos <= 1 THEN h
    ELSE LET parent == pos \div 2
         IN  IF le(h[pos], h[parent]) THEN h
             ELSE sift_up(Swap(h, pos, parent), parent)

\* BinaryHeap::push
push(h, sp) == sift_up(Append(h, sp), Len(h) + 1)

\* BinaryHeap::sift_down_range(pos, end) over the elements 1..end.
RECURSIVE sift_down_range(_, _, _)
sift_down_range(h, pos, end) ==
    LET left == 2 * pos IN
    IF left + 1 <= end
    THEN LET child == IF le(h[left], h[left + 1]) THEN left + 1 ELSE left
         IN  IF ge(h[pos], h[child]) THEN h
             ELSE sift_down_range(Swap(h, pos, child), child, end)
    ELSE IF left = end /\ lt(h[pos], h[left]) THEN Swap(h, pos, left)
    ELSE h

\* BinaryHeap::into_sorted_vec: the loop from `end` down to 2.
RECURSIVE sort_from(_, _)
sort_from(h, end) ==
    IF end <= 1 THEN h
    ELSE sort_from(sift_down_range(Swap(h, 1, end), 1, end - 1), end - 1)

into_sorted_vec(h) == sort_from(h, Len(h))

\* Iterator::rev
rev(s) == [i \in 1..Len(s) |-> s[Len(s) + 1 - i]]

\* Iterator::take
take(s, n) == SubSeq(s, 1, Min(n, Len(s)))

\* The printed entries dropping the last one when the limit is reached (mutant).
ranked_short(h, num) ==
    take(rev(into_sorted_vec(h)), IF num > 0 /\ Len(h) >= num THEN num - 1 ELSE num)

\* heap.into_sorted_vec().into_iter().rev().take(config.num)
ranked(h, num) == take(rev(into_sorted_vec(h)), num)

\* The Vec collected from filter_map over the candidates, in their order, the
\* file system being `kinds` throughout.
RECURSIVE filter_map(_, _, _)
filter_map(paths, cfg, kinds) ==
    IF paths = <<>> THEN <<>>
    ELSE filter_and_score(Head(paths), cfg,
                          is_file(kinds, Head(paths)), is_dir(kinds, Head(paths)))
         \o filter_map(Tail(paths), cfg, kinds)

\* for sp in scored { heap.push(sp) }
RECURSIVE push_all(_, _)
push_all(h, scored) ==
    IF scored = <<>> THEN h ELSE push_all(push(h, Head(scored)), Tail(scored))

\* ------------------------------------------------------------ file systems

\* Names, as the bytes of their ASCII text.
N_r == <<114>>
N_a == <<97>>
N_b == <<98>>
N_x == <<120>>
N_y == <<121>>
N_ab == <<97, 98>>
N_Ab == <<65, 98>>
N_abc == <<97, 98, 99>>
N_bad == <<97, 255>>
N_Xy == <<88, 121>>
N_kilo == <<107, 105, 108, 111>>
N_kilo_md == <<107, 105, 108, 111, 46, 109, 100>>
N_kilogram_txt == <<107, 105, 108, 111, 103, 114, 97, 109, 46, 116, 120, 116>>
N_notes_txt == <<110, 111, 116, 101, 115, 46, 116, 120, 116>>

Cases == {"Sensitive", "Insensitive"}

\* The type filter flags and the case mode of a run.
AllOptions == [files_only : BOOLEAN, dirs_only : BOOLEAN, case : Cases]

\* Runs without a type filter.
Unfiltered == {o \in AllOptions : ~o.files_only /\ ~o.dirs_only}

\* The result limits (-n) of a run.
Nums == 0..MaxNum

\* r/{kilogram.txt, kilo.md, notes.txt}, searched for its two best entries
\* without a type filter and ignoring case (all names are files in lower case).
KiloWorld ==
    [root |-> <<N_r>>,
     kinds |-> (<<N_r>> :> "dir") @@ (<<N_r, N_kilogram_txt>> :> "file")
               @@ (<<N_r, N_kilo_md>> :> "file") @@ (<<N_r, N_notes_txt>> :> "file"),
     queries |-> {N_kilo},
     nums |-> {2},
     options |-> {[files_only |-> FALSE, dirs_only |-> FALSE, case |-> "Insensitive"]}]

\* r/{a/y, b/x}, searched without a type filter.
TieWorld ==
    [root |-> <<N_r>>,
     kinds |-> (<<N_r>> :> "dir") @@ (<<N_r, N_a>> :> "dir") @@ (<<N_r, N_a, N_y>> :> "file")
               @@ (<<N_r, N_b>> :> "dir") @@ (<<N_r, N_b, N_x>> :> "file"),
     queries |-> {N_Xy},
     nums |-> Nums,
     options |-> Unfiltered]

\* r/{ab/Ab, abc -> (broken symlink)}
TypeWorld ==
    [root |-> <<N_r>>,
     kinds |-> (<<N_r>> :> "dir") @@ (<<N_r, N_ab>> :> "dir") @@ (<<N_r, N_ab, N_Ab>> :> "file")
               @@ (<<N_r, N_abc>> :> "broken"),
     queries |-> {N_ab},
     nums |-> Nums,
     options |-> AllOptions]

\* The root is the file ab.
FileWorld ==
    [root |-> <<N_ab>>, kinds |-> (<<N_ab>> :> "file"), queries |-> {N_Ab, <<>>},
     nums |-> Nums,
     options |-> AllOptions]

\* r/{a\xFF}: a file whose name is not valid UTF-8 (dropped before the type
\* filter), searched without a type filter.
BadNameWorld ==
    [root |-> <<N_r>>,
     kinds |-> (<<N_r>> :> "dir") @@ (<<N_r, N_bad>> :> "file"),
     queries |-> {N_a},
     nums |-> Nums,
     options |-> Unfiltered]

Worlds == {KiloWorld, TieWorld, TypeWorld, FileWorld, BadNameWorld}

IsPrefix(p, x) == Len(p) <= Len(x) /\ SubSeq(x, 1, Len(p)) = p

\* The entries read_dir yields for directory d: what exists in it, broken
\* symlinks included.
Children(kinds, d) ==
    {x \in DOMAIN kinds : Len(x) = Len(d) + 1 /\ IsPrefix(d, x) /\ kinds[x] # "gone"}

Range(s) == {s[i] : i \in 1..Len(s)}

\* ------------------------------------------------------------------ state

VARIABLES
    config,      \* Config: query, num, files_only, dirs_only, case, parallel
    root,        \* Path::new(&config.root)
    fs,          \* the file system: path -> "file" | "dir" | "broken" | "gone"
    pc,          \* position of main
    stack,       \* walk_dir's call stack: one frame per call, the innermost last
    candidates,  \* main's Vec<PathBuf>
    slots,       \* per candidate: how far its filter_and_score call is, its Option
    scored,      \* the collected Vec<ScoredPath>
    heap,        \* the BinaryHeap's vector
    pushed,      \* how many of scored the push loop has consumed
    to_print,    \* the items of heap.into_sorted_vec().into_iter().rev().take(num)
    output,      \* the printed lines: [score, path, ty]
    no_results,  \* "No results found." was printed
    exitCode,    \* -1 while running, then the process's exit code
    errors,      \* I/O failures met so far
    repeats,     \* entries yielded a second time so far
    changes,     \* changes another process made to the file system so far
    hpc,         \* scoring harness: position
    hq,          \* scoring harness: query
    hc,          \* scoring harness: candidate name
    hc2,         \* scoring harness: a second candidate name
    hcase,       \* scoring harness: case mode
    hs,          \* fuzzy_score(hq, hc)
    hs2,         \* fuzzy_score(hq, hc2)
    hopt         \* filter_and_score of the file named hc

pvars == <<config, root, fs, pc, stack, candidates, slots, scored, heap, pushed,
           to_print, output, no_results, exitCode, errors, repeats, changes>>
hvars == <<hpc, hq, hc, hc2, hcase, hs, hs2, hopt>>
vars == <<pvars, hvars>>

HarnessOff ==
    /\ hpc = "off" /\ hq = <<>> /\ hc = <<>> /\ hc2 = <<>>
    /\ hcase = "Insensitive" /\ hs = 0 /\ hs2 = 0 /\ hopt = <<>>

\* A walk_dir(path, out) call that has not run yet.  at: the statement the
\* call is at ("meta" line 192, "open" line 194, "iter" line 195, "entry"
\* line 199); read: has `entries` read the directory; rest: the entries read
\* and not yet yielded; cur: the entry's path p of lines 197-200.
Frame(path) == [dir |-> path, at |-> "meta", read |-> FALSE, rest |-> {}, cur |-> <<>>]

\* A filter_and_score call that has not run yet.  step: "new", "file_checked"
\* (line 212 passed, line 215 to come) or "done"; isf, isd: what is_file and
\* is_dir answered where the call asked (FALSE where it did not).
NewSlot == [step |-> "new", isf |-> FALSE, isd |-> FALSE, res |-> <<>>]

PipelineAt(w, q, n, o, par) ==
    /\ config = [query |-> q, num |-> n, files_only |-> o.files_only,
                 dirs_only |-> o.dirs_only, case |-> o.case, parallel |-> par]
    /\ root = w.root
    /\ fs = w.kinds
    /\ pc = "walk"
    /\ stack = << Frame(w.root) >>
    /\ candidates = <<>>
    /\ slots = <<>>
    /\ scored = <<>>
    /\ heap = <<>>
    /\ pushed = 0
    /\ to_print = <<>>
    /\ output = <<>>
    /\ no_results = FALSE
    /\ exitCode = 0 - 1
    /\ errors = 0
    /\ repeats = 0
    /\ changes = 0

\* main after Config::from_args returned Ok without --help or --version, about
\* to run walk_dir(root).
Init ==
    /\ \E w \in Worlds : \E q \in w.queries : \E n \in w.nums :
       \E o \in w.options : \E par \in BOOLEAN :
          PipelineAt(w, q, n, o, par)
    /\ HarnessOff

\* ------------------------------------------------------------- walk_dir

\* May the environment act once more?
Budget == errors + repeats + changes < MaxEvents

MayFail == IF Budget THEN {FALSE, TRUE} ELSE {FALSE}
MayRepeat == IF Budget THEN {FALSE, TRUE} ELSE {FALSE}

\* fs::metadata(path): the path exists (a broken symlink does not).
Exists(path) == path \in DOMAIN fs /\ fs[path] \in {"file", "dir"}

Top == stack[Len(stack)]
Below == SubSeq(stack, 1, Len(stack) - 1)

\* The innermost call goes on at another statement.
Goto(frame) ==
    /\ stack' = Append(Below, frame)
    /\ UNCHANGED <<pc, slots, exitCode>>

\* The innermost call returns Ok (ok) or Err.  A nested call's result is
\* dropped by its caller (let _ =); on the root call's, main goes on to the
\* scoring or exits with code 1.
Leave(ok) ==
    /\ stack' = Below
    /\ IF Len(stack) > 1 THEN UNCHANGED <<pc, slots, exitCode>>
       ELSE IF ok
       THEN /\ pc' = "score"
            /\ slots' = [i \in 1..Len(candidates') |-> NewSlot]
            /\ UNCHANGED exitCode
       ELSE /\ pc' = "failed"
            /\ exitCode' = 1
            /\ UNCHANGED slots

\* fs::metadata(path)? and the branch on meta.is_dir(); a path that is no
\* directory is pushed and the call returns.
WalkMeta ==
    /\ pc = "walk"
    /\ Top.at = "meta"
    /\ \E fail \in MayFail :
         /\ errors' = IF fail THEN errors + 1 ELSE errors
         /\ IF fail \/ ~Exists(Top.dir)
            THEN UNCHANGED candidates /\ Leave(FALSE)
            ELSE IF is_dir(fs, Top.dir)
            THEN UNCHANGED candidates /\ Goto([Top EXCEPT !.at = "open"])
            ELSE candidates' = Append(candidates, Top.dir) /\ Leave(TRUE)
    /\ UNCHANGED <<config, root, fs, scored, heap, pushed, to_print, output,
                   no_results, repeats, changes>>
    /\ UNCHANGED hvars

\* fs::read_dir(path)?: opens the directory, reads nothing yet.
WalkOpen ==
    /\ pc = "walk"
    /\ Top.at = "open"
    /\ \E fail \in MayFail :
         /\ errors' = IF fail THEN errors + 1 ELSE errors
         /\ IF fail \/ ~is_dir(fs, Top.dir)
            THEN Leave(FALSE)
            ELSE Goto([Top EXCEPT !.at = "iter"])
    /\ UNCHANGED <<config, root, fs, candidates, scored, heap, pushed, to_print,
                   output, no_results, repeats, changes>>
    /\ UNCHANGED hvars

\* The entries `entries` has left to yield: its first next() reads what the
\* directory holds then, the later ones take from what was read.
Avail == IF Top.read THEN Top.rest ELSE Children(fs, Top.dir)

\* `for entry in entries` yields an Ok entry: lines 196-198.  read_dir may
\* yield the entry once more later.
WalkEntry ==
    /\ pc = "walk"
    /\ Top.at = "iter"
    /\ \E e \in Avail : \E again \in MayRepeat :
         /\ repeats' = IF again THEN repeats + 1 ELSE repeats
         /\ candidates' = Append(candidates, e)
         /\ Goto([dir |-> Top.dir, at |-> "entry", read |-> TRUE,
                  rest |-> IF again THEN Avail ELSE Avail \ {e}, cur |-> e])
    /\ UNCHANGED <<config, root, fs, scored, heap, pushed, to_print, output,
                   no_results, errors, changes>>
    /\ UNCHANGED hvars

\* `for entry in entries` yields an Err (whether or not entries are left): `?`
\* returns it from the call.
WalkEntryErr ==
    /\ pc = "walk"
    /\ Top.at = "iter"
    /\ Budget
    /\ errors' = errors + 1
    /\ Leave(FALSE)
    /\ UNCHANGED <<config, root, fs, candidates, scored, heap, pushed,
                   to_print, output, no_results, repeats, changes>>
    /\ UNCHANGED hvars

\* if p.is_dir() { let _ = walk_dir(&p, out); }
WalkIsDir ==
    /\ pc = "walk"
    /\ Top.at = "entry"
    /\ LET back == [Top EXCEPT !.at = "iter", !.cur = <<>>]
       IN  stack' = IF is_dir(fs, Top.cur)
                    THEN Append(Append(Below, back), Frame(Top.cur))
                    ELSE Append(Below, back)
    /\ UNCHANGED <<config, root, fs, pc, candidates, slots, scored, heap, pushed,
                   to_print, output, no_results, exitCode, errors, repeats, changes>>
    /\ UNCHANGED hvars

\* `entries` is at its end: Ok(()).
WalkReturn ==
    /\ pc = "walk"
    /\ Top.at = "iter"
    /\ Avail = {}
    /\ UNCHANGED candidates
    /\ Leave(TRUE)
    /\ UNCHANGED <<config, root, fs, scored, heap, pushed, to_print,
                   output, no_results, errors, repeats, changes>>
    /\ UNCHANGED hvars

\* The parent directory of p exists (the root's is outside the tree).
ParentIsDir(p) == Len(p) = 1 \/ is_dir(fs, SubSeq(p, 1, Len(p) - 1))

\* Another process removes a path (and what is below it) while main runs.
Delete ==
    /\ pc \notin {"done", "failed", "off"}
    /\ Budget
    /\ \E p \in DOMAIN fs :
         /\ fs[p] # "gone"
         /\ fs' = [x \in DOMAIN fs |-> IF IsPrefix(p, x) THEN "gone" ELSE fs[x]]
    /\ changes' = changes + 1
    /\ UNCHANGED <<config, root, pc, stack, candidates, slots, scored, heap, pushed,
                   to_print, output, no_results, exitCode, errors, repeats>>
    /\ UNCHANGED hvars

\* Another process puts a file, an empty directory or a broken symlink at a
\* path, in place of what was there (what was below it is gone).
Replace ==
    /\ pc \notin {"done", "failed", "off"}
    /\ Budget
    /\ \E p \in DOMAIN fs : \E k \in {"file", "dir", "broken"} \ {fs[p]} :
         /\ ParentIsDir(p)
         /\ fs' = [x \in DOMAIN fs |-> IF x = p THEN k
                                      ELSE IF IsPrefix(p, x) THEN "gone" ELSE fs[x]]
    /\ changes' = changes + 1
    /\ UNCHANGED <<config, root, pc, stack, candidates, slots, scored, heap, pushed,
                   to_print, output, no_results, exitCode, errors, repeats>>
    /\ UNCHANGED hvars

\* ---------------------------------------------------------------- scoring

Pending == {i \in 1..Len(slots) : slots[i].step # "done"}

\* The candidates a worker may go on with: any pending one under par_iter, the
\* first pending one under iter.
Takeable ==
    IF config.parallel THEN Pending
    ELSE {i \in Pending : \A j \in Pending : i <= j}

\* Does the call for path p ask the file system twice (lines 212 and 215)?
AsksTwice(p) == config.files_only /\ config.dirs_only /\ file_name(p) # <<>>

\* path.is_file() of line 212 answers true and line 215 is still to come.
ScoreFileStat ==
    /\ pc = "score"
    /\ \E i \in Takeable :
         /\ slots[i].step = "new"
         /\ AsksTwice(candidates[i])
         /\ is_file(fs, candidates[i])
         /\ slots' = [slots EXCEPT ![i] = [@ EXCEPT !.step = "file_checked", !.isf = TRUE]]
    /\ UNCHANGED <<config, root, fs, pc, stack, candidates, scored, heap, pushed,
                   to_print, output, no_results, exitCode, errors, repeats, changes>>
    /\ UNCHANGED hvars

\* One filter_and_score call of the filter_map closure, from its start or from
\* line 215 on.
ScoreOne ==
    /\ pc = "score"
    /\ \E i \in Takeable :
         LET p == candidates[i]
             named == file_name(p) # <<>>
             isf == IF slots[i].step = "file_checked" THEN slots[i].isf
                    ELSE named /\ config.files_only /\ is_file(fs, p)
             isd == named /\ config.dirs_only /\ (config.files_only => isf)
                    /\ is_dir(fs, p)
         IN
         /\ slots[i].step = "file_checked" \/ ~(AsksTwice(p) /\ is_file(fs, p))
         /\ slots' = [slots EXCEPT ![i] =
                        [step |-> "done", isf |-> isf, isd |-> isd,
                         res |-> filter_and_score(p, config, isf, isd)]]
    /\ UNCHANGED <<config, root, fs, pc, stack, candidates, scored, heap, pushed,
                   to_print, output, no_results, exitCode, errors, repeats, changes>>
    /\ UNCHANGED hvars

RECURSIVE Flatten(_)
Flatten(ss) == IF ss = <<>> THEN <<>> ELSE Head(ss).res \o Flatten(Tail(ss))

\* collect(): every closure has returned; the Some values in candidate order.
Collect ==
    /\ pc = "score"
    /\ Pending = {}
    /\ scored' = Flatten(slots)
    /\ pc' = "push"
    /\ UNCHANGED <<config, root, fs, stack, candidates, slots, heap, pushed,
                   to_print, output, no_results, exitCode, errors, repeats, changes>>
    /\ UNCHANGED hvars

\* One iteration of `for sp in scored { heap.push(sp) }`.
HeapPush ==
    /\ pc = "push"
    /\ pushed < Len(scored)
    /\ heap' = push(heap, scored[pushed + 1])
    /\ pushed' = pushed + 1
    /\ UNCHANGED <<config, root, fs, pc, stack, candidates, slots, scored,
                   to_print, output, no_results, exitCode, errors, repeats, changes>>
    /\ UNCHANGED hvars

\* The "Results:" line and the iterator of the print loop.
SortHeap ==
    /\ pc = "push"
    /\ pushed = Len(scored)
    /\ to_print' = ranked(heap, config.num)
    /\ pc' = "print"
    /\ UNCHANGED <<config, root, fs, stack, candidates, slots, scored, heap, pushed,
                   output, no_results, exitCode, errors, repeats, changes>>
    /\ UNCHANGED hvars

\* The line printed for one ScoredPath; is_dir reads the file system now.
Line(sp, kinds) ==
    [score |-> sp.score, path |-> sp.path,
     ty |-> IF is_dir(kinds, sp.path) THEN "DIR " ELSE "FILE"]

Lines(sps, kinds) == [i \in 1..Len(sps) |-> Line(sps[i], kinds)]

\* One iteration of the print loop; Len(output) is `shown`.
PrintLine ==
    /\ pc = "print"
    /\ Len(output) < Len(to_print)
    /\ output' = Append(output, Line(to_print[Len(output) + 1], fs))
    /\ UNCHANGED <<config, root, fs, pc, stack, candidates, slots, scored, heap,
                   pushed, to_print, no_results, exitCode, errors, repeats, changes>>
    /\ UNCHANGED hvars

\* After the print loop: "No results found." if nothing was shown; main returns.
PrintEnd ==
    /\ pc = "print"
    /\ Len(output) = Len(to_print)
    /\ no_results' = (Len(output) = 0)
    /\ pc' = "done"
    /\ exitCode' = 0
    /\ UNCHANGED <<config, root, fs, stack, candidates, slots, scored, heap, pushed,
                   to_print, output, errors, repeats, changes>>
    /\ UNCHANGED hvars

Next ==
    \/ WalkMeta
    \/ WalkOpen
    \/ WalkEntry
    \/ WalkEntryErr
    \/ WalkIsDir
    \/ WalkReturn
    \/ Delete
    \/ Replace
    \/ ScoreFileStat
    \/ ScoreOne
    \/ Collect
    \/ HeapPush
    \/ SortHeap
    \/ PrintLine
    \/ PrintEnd

Spec == Init /\ [][Next]_vars

\* ------------------------------------------------------ scoring harness

\* The characters of the harness's strings: 'A' and 'a'.
Alphabet == {65, 97}

Strs == UNION {[1..k -> Alphabet] : k \in 0..MaxLen}

PipelineOff ==
    /\ config = [query |-> <<>>, num |-> 0, files_only |-> FALSE, dirs_only |-> FALSE,
                 case |-> "Insensitive", parallel |-> FALSE]
    /\ root = <<>>
    /\ fs = <<>>
    /\ pc = "off"
    /\ stack = <<>>
    /\ candidates = <<>>
    /\ slots = <<>>
    /\ scored = <<>>
    /\ heap = <<>>
    /\ pushed = 0
    /\ to_print = <<>>
    /\ output = <<>>
    /\ no_results = FALSE
    /\ exitCode = 0 - 1
    /\ errors = 0
    /\ repeats = 0
    /\ changes = 0

\* A query, two candidate names and a case mode.
InitScore ==
    /\ PipelineOff
    /\ hpc = "in"
    /\ hq \in Strs
    /\ hc \in Strs
    /\ hc2 \in Strs
    /\ hcase \in Cases
    /\ hs = 0
    /\ hs2 = 0
    /\ hopt = <<>>

\* fuzzy_score of the query against each of the two names.
HScore ==
    /\ hpc = "in"
    /\ hs' = fuzzy_score(hq, hc)
    /\ hs2' = fuzzy_score(hq, hc2)
    /\ hpc' = "scored"
    /\ UNCHANGED <<hq, hc, hc2, hcase, hopt>>
    /\ UNCHANGED pvars

\* filter_and_score of the file named hc, with no type filter.
HFilter ==
    /\ hpc = "scored"
    /\ hc # <<>>
    /\ hopt' = filter_and_score(<<hc>>,
                   [query |-> hq, num |-> 0, files_only |-> FALSE, dirs_only |-> FALSE,
                    case |-> hcase, parallel |-> FALSE],
                   FALSE, FALSE)
    /\ hpc' = "filtered"
    /\ UNCHANGED <<hq, hc, hc2, hcase, hs, hs2>>
    /\ UNCHANGED pvars

NextScore ==
    \/ HScore
    \/ HFilter

SpecScore == InitScore /\ [][NextScore]_vars

\* ------------------------------------------------------------------ claims

\* The candidates in ascending path order (insertion sort): the reference
\* enumeration order.
RECURSIVE InsertPath(_, _)
InsertPath(sorted, p) ==
    IF sorted = <<>> THEN <<p>>
    ELSE IF PathCmp(p, Head(sorted)) = "Less" THEN <<p>> \o sorted
    ELSE <<Head(sorted)>> \o InsertPath(Tail(sorted), p)

RECURSIVE SortPaths(_)
SortPaths(paths) ==
    IF paths = <<>> THEN <<>>
    ELSE InsertPath(SortPaths(Tail(paths)), Head(paths))

\* What a sequential run prints for the candidates enumerated in `paths`, the
\* file system being the current one throughout.
SequentialRun(paths) ==
    Lines(ranked(push_all(<<>>, filter_map(paths, config, fs)), config.num), fs)

\* C1: with the file system left alone during the run, the printed ranking of a run
\* (sequential or parallel, whatever the order the candidates were enumerated
\* in and the closures ran in) is the ranking a sequential run prints for the
\* same candidates enumerated in path order.
C1_RankingIsDeterministic ==
    (pc = "done" /\ changes = 0) => output = SequentialRun(SortPaths(candidates))

\* A parallel run over candidates not in path order that printed two entries
\* of equal score.
C1_Witness ==
    /\ pc = "done"
    /\ changes = 0
    /\ config.parallel
    /\ candidates # SortPaths(candidates)
    /\ Len(output) >= 2
    /\ output[1].score = output[2].score
    /\ output[1].path # output[2].path

\* C2: the printed entries are in descending score order, and entries of equal
\* score in ascending path order.
C2_OutputSorted ==
    pc = "done" =>
        \A i \in 1..Len(output) : \A j \in 1..Len(output) :
            i < j =>
                \/ output[i].score > output[j].score
                \/ /\ output[i].score = output[j].score
                   /\ PathCmp(output[i].path, output[j].path) # "Greater"

\* a/y and b/x were scored equal and a/y is printed first, although b/x was
\* collected first.
C2_Witness ==
    /\ pc = "done"
    /\ Len(output) = 2
    /\ output[1].path = <<N_r, N_a, N_y>>
    /\ output[2].path = <<N_r, N_b, N_x>>
    /\ output[1].score = output[2].score
    /\ scored[1].path = <<N_r, N_b, N_x>>

\* C3: the printed list has min(num, |scored|) entries, duplicates counted
\* separately; the heap holds every pushed entry; num = 0 or nothing scored
\* prints nothing.
C3_TopKLength ==
    /\ Len(heap) = pushed
    /\ pc = "done" =>
         /\ Len(output) = Min(config.num, Len(scored))
         /\ (config.num = 0 \/ scored = <<>>) => (output = <<>> /\ no_results)

\* The same (score, path) pair is printed twice.
C3_Witness ==
    /\ pc = "done"
    /\ Len(output) = 2
    /\ Len(scored) > 2
    /\ output[1].score = output[2].score
    /\ output[1].path = output[2].path

\* C4: every ScoredPath that exists (returned by filter_and_score, collected,
\* in the heap, printed) has a score above 0.
C4_ScorePositive ==
    /\ \A i \in 1..Len(slots) :
         slots[i].res # <<>> => slots[i].res[1].score > 0
    /\ \A i \in 1..Len(scored) : scored[i].score > 0
    /\ \A i \in 1..Len(heap) : heap[i].score > 0
    /\ \A i \in 1..Len(output) : output[i].score > 0

\* A candidate that passes the type filter was dropped for its score of 0,
\* and another one was kept.
C4_Witness ==
    /\ ~config.files_only
    /\ ~config.dirs_only
    /\ config.query # <<>>
    /\ \E i \in 1..Len(slots) :
         /\ slots[i].step = "done"
         /\ slots[i].res = <<>>
         /\ file_name(candidates[i]) # <<>>
    /\ \E j \in 1..Len(slots) : slots[j].res # <<>>

\* Is c an exact or a prefix match of q?
ExactOrPrefix(q, c) == q = c \/ starts_with(c, q)

\* C5: for one query, a name that equals or starts with the query scores
\* strictly above a name that does neither, and the alignment score is at most
\* 2 * min(|query|, |name|).
C5_BoostedOutrankFuzzy ==
    hpc # "in" =>
        /\ (ExactOrPrefix(hq, hc) /\ ~ExactOrPrefix(hq, hc2)) => hs > hs2
        /\ Alignment(hq, hc) <= 2 * Min(Len(hq), Len(hc))

\* A prefix match against a name that matches only fuzzily, with a score above 0.
C5_Witness ==
    /\ hpc = "scored"
    /\ starts_with(hc, hq)
    /\ hc # hq
    /\ ~ExactOrPrefix(hq, hc2)
    /\ hs2 > 0
    /\ hs > hs2

\* C6 as stated: for any query, a name that starts with the query and differs
\* from it scores at least 5000 above its alignment score and strictly below
\* the name equal to the query.
C6_PrefixDominance_Original ==
    (hpc # "in" /\ starts_with(hc, hq) /\ hc # hq /\ hc2 = hq) =>
        /\ hs >= Alignment(hq, hc) + PrefixBoost
        /\ hs < hs2

\* C6, amended: the same for any non-empty query.
C6_PrefixDominance ==
    (hpc # "in" /\ hq # <<>> /\ starts_with(hc, hq) /\ hc # hq /\ hc2 = hq) =>
        /\ hs >= Alignment(hq, hc) + PrefixBoost
        /\ hs < hs2

\* A non-empty query, a longer name that starts with it, and the name equal to it.
C6_Witness ==
    /\ hpc = "scored"
    /\ hq # <<>>
    /\ starts_with(hc, hq)
    /\ hc # hq
    /\ hc2 = hq
    /\ hs < hs2

TheScenario ==
    /\ root = KiloWorld.root
    /\ fs = KiloWorld.kinds
    /\ config.query = N_kilo
    /\ config.num = 2
    /\ config.case = "Insensitive"
    /\ ~config.files_only
    /\ ~config.dirs_only
    /\ errors = 0
    /\ repeats = 0
    /\ changes = 0

\* C7 as stated: kilo.md is printed above kilogram.txt with a strictly higher
\* score, and notes.txt scores 0, so it is never a ScoredPath.
C7_Scenario_Original ==
    (TheScenario /\ pc = "done") =>
        /\ Len(output) = 2
        /\ output[1].path = <<N_r, N_kilo_md>>
        /\ output[2].path = <<N_r, N_kilogram_txt>>
        /\ output[1].score > output[2].score
        /\ \A i \in 1..Len(scored) : scored[i].path # <<N_r, N_notes_txt>>

\* C7, amended: kilo.md is printed above kilogram.txt, both with the prefix
\* score 5008 and kilo.md first by the path tie-break; notes.txt scores 2, is a
\* ScoredPath, and is left out of the output by num = 2 alone.
C7_Scenario ==
    (TheScenario /\ pc = "done") =>
        /\ output = << [score |-> 5008, path |-> <<N_r, N_kilo_md>>, ty |-> "FILE"],
                       [score |-> 5008, path |-> <<N_r, N_kilogram_txt>>, ty |-> "FILE"] >>
        /\ \E i \in 1..Len(scored) :
             scored[i] = [score |-> 2, path |-> <<N_r, N_notes_txt>>]

\* The scenario ran to its end in parallel, kilogram.txt collected first.
C7_Witness ==
    /\ TheScenario
    /\ pc = "done"
    /\ config.parallel
    /\ candidates[1] = <<N_r, N_kilogram_txt>>

\* C8 as stated: filter_and_score emits nothing for a candidate its check
\* found not to be a file when files_only is set, and nothing for one its check
\* found not to be a directory when dirs_only is set; with both set no
\* candidate is ever emitted, and the run ends with an empty result and exit
\* code 0.
C8_TypeFilterHonoured ==
    /\ \A i \in 1..Len(slots) :
         slots[i].res # <<>> =>
             /\ config.files_only => slots[i].isf
             /\ config.dirs_only => slots[i].isd
    /\ (config.files_only /\ config.dirs_only) =>
         /\ \A i \in 1..Len(slots) : slots[i].res = <<>>
         /\ scored = <<>>
         /\ pc = "done" => (output = <<>> /\ no_results /\ exitCode = 0)

\* The entries below the root that the traversal did not collect.
Missing == {x \in DOMAIN fs : x # root /\ x \notin Range(candidates)}

\* C9 as stated, for the runs (num > 0) that have collected a candidate that
\* scores: an
\* I/O failure met in the walk never ends the process with an error, and costs
\* no more than the offending entry or subtree: the file system left alone, the
\* entries not collected lie below at most one path per failure.
C9_TraversalErrorNonFatal ==
    /\ (/\ errors > 0
        /\ config.num > 0
        /\ \E i \in 1..Len(candidates) :
             filter_and_score(candidates[i], config, is_file(fs, candidates[i]),
                              is_dir(fs, candidates[i])) # <<>>)
       => pc # "failed"
    /\ (pc = "done" /\ changes = 0) =>
         \E offenders \in SUBSET (DOMAIN fs) :
            /\ Cardinality(offenders) <= errors
            /\ \A x \in Missing : \E o \in offenders : IsPrefix(o, x)

\* C10: fuzzy_score is 0 when the query or the name is empty, also when both
\* are (and so equal); and filter_and_score emits nothing for an empty query.
C10_EmptyInputScoresZero ==
    /\ (hpc # "in" /\ (hq = <<>> \/ hc = <<>>)) => hs = 0
    /\ (hpc # "in" /\ (hq = <<>> \/ hc2 = <<>>)) => hs2 = 0
    /\ (hpc = "filtered" /\ hq = <<>>) => hopt = <<>>

\* An empty query against a name, and against the empty name.
C10_Witness ==
    /\ hpc = "filtered"
    /\ hq = <<>>
    /\ hc # <<>>
    /\ hc2 = <<>>
    /\ hs = 0
    /\ hs2 = 0
    /\ hopt = <<>>

====
